---- MODULE Spec2Model ----
(***************************************************************************)
(* Streaming voice-activity session engine of meow-service/app.py:        *)
(* the global session dictionary vad_sessions and the four VAD handlers    *)
(* (detect_voice_activity, start_vad_session, process_vad_stream,          *)
(* end_vad_session).  Every handler is an `async def` without any await,   *)
(* so on the event loop each call runs from its first to its last line     *)
(* without another handler in between: one action per call.                *)
(*                                                                         *)
(* Probabilities and thresholds are percentages (0.15 is 15, 0.5 is 50).   *)
(***************************************************************************)
EXTENDS Integers, Sequences, FiniteSets, TLC

(* ---------------- bounds of the model ---------------- *)

\* process_vad_stream is not called on a session whose silence_frames reached this
MaxSilence == 17
\* number of calls of a run of the two-session specification
MaxCalls == 6
\* the observer records the per-frame decisions of the first MaxHist frames of a session
MaxHist == 7
\* decoded audio chunks have 1..MaxBytes bytes
MaxBytes == 2
\* process calls that may be suspended at an await at the same time
MaxInflight == 2

(* ---------------- program constants ---------------- *)

\* len(session["voice_window"]) > 5
WindowSize == 5
\* sum(session["voice_window"]) >= 3
ConfirmCount == 3
\* session["silence_frames"] >= 16
SilenceEndFrames == 16
\* np.int16: two bytes per sample
SampleWidth == 2

(* ---------------- inputs ---------------- *)

SessionIds == {"s1", "s2"}
\* speech probabilities the classifier returns; ClassifierRaises is vad_model(...) raising
Probs == {5, 15, 30, 50}
ClassifierRaises == -1
Outcomes == Probs \cup {ClassifierRaises}
\* request.threshold (default 0.5) and request.threshold_low (default 0.15)
Thresholds == {10, 50}
ThresholdLows == {15}
\* request.threshold of the one-shot /vad calls
DetectThresholds == {50}
\* an audio chunk: whether b64decode accepts the text, and the decoded length if so
AudioChunks == [valid_b64 : {TRUE}, nbytes : 1..MaxBytes]
                   \cup {[valid_b64 |-> FALSE, nbytes |-> 0]}
\* what the classifier may do with a chunk; it is not called on one that fails to decode
OutcomesOf(decoded) == IF decoded = "ok" THEN Outcomes ELSE {ClassifierRaises}

VARIABLES
    vad_model,      \* "loaded" or "None": the global set by load_models at startup
    vad_sessions,   \* the global dict: session id -> session record
    req,            \* the last request served
    resp,           \* the response to it: [status, body]
    watch,          \* observer: per session id, what the responses since its start showed
    clients,        \* the session ids the callers use in this run
    budget,         \* calls left in a run of several sessions
    inflight        \* process_vad_stream coroutines suspended at an await

vars == <<vad_model, vad_sessions, req, resp, watch, clients, budget, inflight>>

(* ---------------- start_vad_session ---------------- *)

FreshSession ==
    [audio_buffer |-> <<>>, voice_window |-> <<>>, last_voice_state |-> FALSE,
     silence_frames |-> 0, has_voice |-> FALSE]

\* d[k] = v of a Python dict
DictSet(d, k, v) == [i \in DOMAIN d \cup {k} |-> IF i = k THEN v ELSE d[i]]
\* d.pop(k) of a Python dict (the dict that remains)
DictPop(d, k) == [i \in DOMAIN d \ {k} |-> d[i]]

StartKeepsLive(sessions, id) ==
    IF id \in DOMAIN sessions THEN sessions ELSE DictSet(sessions, id, FreshSession)

StartSession(sessions, id) == DictSet(sessions, id, FreshSession)

StartResponse(id) == [status |-> 200, body |-> [status |-> "started", session_id |-> id]]

(* ---------------- process_vad_stream ---------------- *)

\* raise HTTPException(status_code=code, detail=text); text is a tuple of its parts
HttpError(code, text) == [status |-> code, body |-> [detail |-> text]]

\* b64decode + np.frombuffer(dtype=np.int16): "ok", or the exception raised
DecodeAudio(chunk) ==
    IF ~chunk.valid_b64 THEN "binascii.Error"
    ELSE IF chunk.nbytes % SampleWidth # 0 THEN "ValueError"
    ELSE "ok"

\* current_voice = speech_prob >= request.threshold
CurrentVoice(prob, threshold) == prob >= threshold

UpdateWindowNoEvict(window, current_voice) == Append(window, current_voice)

UpdateWindowDropNewest(window, current_voice) ==
    IF Len(window) + 1 > WindowSize THEN window ELSE Append(window, current_voice)

\* voice_window.append(current_voice); if len > 5: voice_window.pop(0)
UpdateWindow(window, current_voice) ==
    LET w == Append(window, current_voice)
    IN  IF Len(w) > WindowSize THEN Tail(w) ELSE w

\* sum(session["voice_window"])
RECURSIVE SumWindow(_)
SumWindow(window) ==
    IF window = <<>> THEN 0
    ELSE (IF Head(window) THEN 1 ELSE 0) + SumWindow(Tail(window))

VoiceConfirmedTwo(window) == SumWindow(window) >= ConfirmCount - 1

\* voice_confirmed = sum(session["voice_window"]) >= 3
VoiceConfirmed(window) == SumWindow(window) >= ConfirmCount

\* the if / elif / else on voice_confirmed and threshold_low: the session after it
\* and the speech_ended flag
TrackSilenceOffByOne(session, voice_confirmed, prob, threshold_low) ==
    IF voice_confirmed THEN
        [session |-> [session EXCEPT !.has_voice = TRUE, !.silence_frames = 0,
                                     !.last_voice_state = TRUE],
         speech_ended |-> FALSE]
    ELSE IF prob <= threshold_low THEN
        LET n == session.silence_frames + 1
        IN  IF n > SilenceEndFrames
            THEN [session |-> [session EXCEPT !.silence_frames = n, !.has_voice = FALSE],
                  speech_ended |-> TRUE]
            ELSE [session |-> [session EXCEPT !.silence_frames = n],
                  speech_ended |-> FALSE]
    ELSE [session |-> [session EXCEPT !.silence_frames = 0], speech_ended |-> FALSE]

\* `if` in place of `elif`: the silence test is made on voice-confirmed frames too
TrackSilenceSeparateIfs(session, voice_confirmed, prob, threshold_low) ==
    LET s1 == IF voice_confirmed
              THEN [session EXCEPT !.has_voice = TRUE, !.silence_frames = 0,
                                   !.last_voice_state = TRUE]
              ELSE session
        n  == s1.silence_frames + 1
    IN  IF prob <= threshold_low THEN
            IF n >= SilenceEndFrames
            THEN [session |-> [s1 EXCEPT !.silence_frames = n, !.has_voice = FALSE],
                  speech_ended |-> TRUE]
            ELSE [session |-> [s1 EXCEPT !.silence_frames = n], speech_ended |-> FALSE]
        ELSE [session |-> [s1 EXCEPT !.silence_frames = 0], speech_ended |-> FALSE]

\* the silence test made before the voice_confirmed test
TrackSilenceLowFirst(session, voice_confirmed, prob, threshold_low) ==
    IF prob <= threshold_low THEN
        LET n == session.silence_frames + 1
        IN  IF n >= SilenceEndFrames
            THEN [session |-> [session EXCEPT !.silence_frames = n, !.has_voice = FALSE],
                  speech_ended |-> TRUE]
            ELSE [session |-> [session EXCEPT !.silence_frames = n],
                  speech_ended |-> FALSE]
    ELSE IF voice_confirmed THEN
        [session |-> [session EXCEPT !.has_voice = TRUE, !.silence_frames = 0,
                                     !.last_voice_state = TRUE],
         speech_ended |-> FALSE]
    ELSE [session |-> [session EXCEPT !.silence_frames = 0], speech_ended |-> FALSE]

TrackSilenceKeepsOnAmbiguous(session, voice_confirmed, prob, threshold_low) ==
    IF voice_confirmed THEN
        [session |-> [session EXCEPT !.has_voice = TRUE, !.silence_frames = 0,
                                     !.last_voice_state = TRUE],
         speech_ended |-> FALSE]
    ELSE IF prob <= threshold_low THEN
        LET n == session.silence_frames + 1
        IN  IF n >= SilenceEndFrames
            THEN [session |-> [session EXCEPT !.silence_frames = n, !.has_voice = FALSE],
                  speech_ended |-> TRUE]
            ELSE [session |-> [session EXCEPT !.silence_frames = n],
                  speech_ended |-> FALSE]
    ELSE [session |-> session, speech_ended |-> FALSE]

TrackSilence(session, voice_confirmed, prob, threshold_low) ==
    IF voice_confirmed THEN
        [session |-> [session EXCEPT !.has_voice = TRUE, !.silence_frames = 0,
                                     !.last_voice_state = TRUE],
         speech_ended |-> FALSE]
    ELSE IF prob <= threshold_low THEN
        LET n == session.silence_frames + 1
        IN  IF n >= SilenceEndFrames
            THEN [session |-> [session EXCEPT !.silence_frames = n, !.has_voice = FALSE],
                  speech_ended |-> TRUE]
            ELSE [session |-> [session EXCEPT !.silence_frames = n],
                  speech_ended |-> FALSE]
    ELSE [session |-> [session EXCEPT !.silence_frames = 0], speech_ended |-> FALSE]

\* the body of the try block once the probability is known
ProcessFrame(session, prob, threshold, threshold_low) ==
    LET window    == UpdateWindow(session.voice_window, CurrentVoice(prob, threshold))
        confirmed == VoiceConfirmed(window)
        tracked   == TrackSilence([session EXCEPT !.voice_window = window],
                                  confirmed, prob, threshold_low)
    IN  [session |-> tracked.session,
         resp |-> [status |-> 200,
                   body |-> [has_voice |-> confirmed, probability |-> prob,
                             speech_ended |-> tracked.speech_ended,
                             session_active |-> TRUE]]]

StreamError(e) == HttpError(500, <<"VAD stream processing failed", e>>)

\* a handler that appends to the window before it classifies the frame
ProcessCallEarlyAppend(sessions, model, r, outcome) ==
    IF model = "None" THEN [sessions |-> sessions, resp |-> HttpError(503, <<"VAD model not loaded">>)]
    ELSE IF r.session_id \notin DOMAIN sessions
    THEN [sessions |-> sessions, resp |-> HttpError(404, <<"Session not found">>)]
    ELSE LET s == sessions[r.session_id]
             early == [s EXCEPT !.voice_window =
                          UpdateWindow(s.voice_window, outcome >= r.threshold)]
         IN  IF DecodeAudio(r.audio_chunk) # "ok"
             THEN [sessions |-> sessions, resp |-> StreamError(DecodeAudio(r.audio_chunk))]
             ELSE IF outcome = ClassifierRaises
             THEN [sessions |-> DictSet(sessions, r.session_id, early),
                   resp |-> StreamError("classifier")]
             ELSE LET p == ProcessFrame(s, outcome, r.threshold, r.threshold_low)
                  IN  [sessions |-> DictSet(sessions, r.session_id, p.session),
                       resp |-> p.resp]

\* a handler that creates the session it does not find
ProcessCallAutoCreate(sessions, model, r, outcome) ==
    IF model = "None" THEN [sessions |-> sessions, resp |-> HttpError(503, <<"VAD model not loaded">>)]
    ELSE IF r.session_id \notin DOMAIN sessions
    THEN [sessions |-> DictSet(sessions, r.session_id, FreshSession),
          resp |-> HttpError(404, <<"Session not found">>)]
    ELSE IF DecodeAudio(r.audio_chunk) # "ok"
    THEN [sessions |-> sessions, resp |-> StreamError(DecodeAudio(r.audio_chunk))]
    ELSE IF outcome = ClassifierRaises
    THEN [sessions |-> sessions, resp |-> StreamError("classifier")]
    ELSE LET p == ProcessFrame(sessions[r.session_id], outcome, r.threshold, r.threshold_low)
         IN  [sessions |-> DictSet(sessions, r.session_id, p.session), resp |-> p.resp]

\* a handler whose sessions share one voice_window list
ProcessCallSharedWindow(sessions, model, r, outcome) ==
    IF model = "None" THEN [sessions |-> sessions, resp |-> HttpError(503, <<"VAD model not loaded">>)]
    ELSE IF r.session_id \notin DOMAIN sessions
    THEN [sessions |-> sessions, resp |-> HttpError(404, <<"Session not found">>)]
    ELSE IF DecodeAudio(r.audio_chunk) # "ok"
    THEN [sessions |-> sessions, resp |-> StreamError(DecodeAudio(r.audio_chunk))]
    ELSE IF outcome = ClassifierRaises
    THEN [sessions |-> sessions, resp |-> StreamError("classifier")]
    ELSE LET p == ProcessFrame(sessions[r.session_id], outcome, r.threshold, r.threshold_low)
         IN  [sessions |-> [i \in DOMAIN sessions |->
                               IF i = r.session_id THEN p.session
                               ELSE [sessions[i] EXCEPT !.voice_window = p.session.voice_window]],
              resp |-> p.resp]

\* a handler that looks the session up before it checks the model
ProcessCallLookupFirst(sessions, model, r, outcome) ==
    IF r.session_id \notin DOMAIN sessions
    THEN [sessions |-> sessions, resp |-> HttpError(404, <<"Session not found">>)]
    ELSE IF model = "None" THEN [sessions |-> sessions, resp |-> HttpError(503, <<"VAD model not loaded">>)]
    ELSE IF DecodeAudio(r.audio_chunk) # "ok"
    THEN [sessions |-> sessions, resp |-> StreamError(DecodeAudio(r.audio_chunk))]
    ELSE IF outcome = ClassifierRaises
    THEN [sessions |-> sessions, resp |-> StreamError("classifier")]
    ELSE LET p == ProcessFrame(sessions[r.session_id], outcome, r.threshold, r.threshold_low)
         IN  [sessions |-> DictSet(sessions, r.session_id, p.session), resp |-> p.resp]

\* process_vad_stream: the registry after the call and the response
ProcessCall(sessions, model, r, outcome) ==
    IF model = "None" THEN [sessions |-> sessions, resp |-> HttpError(503, <<"VAD model not loaded">>)]
    ELSE IF r.session_id \notin DOMAIN sessions
    THEN [sessions |-> sessions, resp |-> HttpError(404, <<"Session not found">>)]
    ELSE IF DecodeAudio(r.audio_chunk) # "ok"
    THEN [sessions |-> sessions, resp |-> StreamError(DecodeAudio(r.audio_chunk))]
    ELSE IF outcome = ClassifierRaises
    THEN [sessions |-> sessions, resp |-> StreamError("classifier")]
    ELSE LET p == ProcessFrame(sessions[r.session_id], outcome, r.threshold, r.threshold_low)
         IN  [sessions |-> DictSet(sessions, r.session_id, p.session), resp |-> p.resp]

(* ---------------- end_vad_session ---------------- *)

EndCallRaisesOnAbsent(sessions, id) ==
    IF id \in DOMAIN sessions
    THEN [sessions |-> DictPop(sessions, id),
          resp |-> [status |-> 200,
                    body |-> [status |-> "ended", session_id |-> id,
                              had_voice |-> sessions[id].has_voice]]]
    ELSE [sessions |-> sessions, resp |-> HttpError(404, <<"Session not found">>)]

EndCallLastVoiceState(sessions, id) ==
    IF id \in DOMAIN sessions
    THEN [sessions |-> DictPop(sessions, id),
          resp |-> [status |-> 200,
                    body |-> [status |-> "ended", session_id |-> id,
                              had_voice |-> sessions[id].last_voice_state]]]
    ELSE [sessions |-> sessions,
          resp |-> [status |-> 200, body |-> [status |-> "not_found", session_id |-> id]]]

\* end_vad_session: the registry after the call and the response
EndCall(sessions, id) ==
    IF id \in DOMAIN sessions
    THEN [sessions |-> DictPop(sessions, id),
          resp |-> [status |-> 200,
                    body |-> [status |-> "ended", session_id |-> id,
                              had_voice |-> sessions[id].has_voice]]]
    ELSE [sessions |-> sessions,
          resp |-> [status |-> 200, body |-> [status |-> "not_found", session_id |-> id]]]

(* ---------------- detect_voice_activity ---------------- *)

DetectError(e) == HttpError(500, <<"VAD detection failed", e>>)

DetectCallStrict(model, r, outcome) ==
    IF model = "None" THEN HttpError(503, <<"VAD model not loaded">>)
    ELSE IF DecodeAudio(r.audio_data) # "ok" THEN DetectError(DecodeAudio(r.audio_data))
    ELSE IF outcome = ClassifierRaises THEN DetectError("classifier")
    ELSE [status |-> 200, body |-> [has_voice |-> outcome > r.threshold, probability |-> outcome]]

\* detect_voice_activity: the response (the handler touches no session)
DetectCall(model, r, outcome) ==
    IF model = "None" THEN HttpError(503, <<"VAD model not loaded">>)
    ELSE IF DecodeAudio(r.audio_data) # "ok" THEN DetectError(DecodeAudio(r.audio_data))
    ELSE IF outcome = ClassifierRaises THEN DetectError("classifier")
    ELSE [status |-> 200, body |-> [has_voice |-> outcome >= r.threshold, probability |-> outcome]]

(* ---------------- observer of the responses ---------------- *)

\* n: successful process calls since the session's start (counted up to MaxHist + 1)
\* frames: the decision probability >= threshold of each of them, in arrival order
\*         (recorded for the first MaxHist calls)
\* fired: responses with speech_ended since the last response with has_voice (up to 2)
\* lows: position in a run of consecutive successful calls with probability <=
\*       threshold_low that began in a session with has_voice set (1..16, else 0)
\* quiet: the same for a run that began with has_voice set and silence_frames = 0
\*        and in which no call was voice-confirmed
\* replaced: the session was started over a live session that had processed frames
\*           (remembered until the new session's third frame)
\* voiced: the last response with has_voice or speech_ended had has_voice
\* heard: some response had has_voice (kept after the session's end, until the next start)
\* run: the latest successful calls that were not voice-confirmed and had
\*      probability <= threshold_low, counted back to the last other successful call
\* dropped: the last successful call was voice-confirmed or above threshold_low and
\*          found silence_frames above 0
WatchInit ==
    [n |-> 0, frames |-> <<>>, fired |-> 0, lows |-> 0, quiet |-> 0, replaced |-> FALSE,
     voiced |-> FALSE, heard |-> FALSE, run |-> 0, dropped |-> FALSE]

Min(a, b) == IF a < b THEN a ELSE b

Observe(w, pre, r, rs) ==
    IF rs.status # 200 THEN [w EXCEPT !.lows = 0, !.quiet = 0]
    ELSE LET prob == rs.body.probability
             vc   == rs.body.has_voice
             low  == prob <= r.threshold_low
         IN  [w EXCEPT
                !.voiced = IF vc THEN TRUE
                           ELSE IF rs.body.speech_ended THEN FALSE ELSE w.voiced,
                !.heard = w.heard \/ vc,
                !.run = IF ~vc /\ low THEN w.run + 1 ELSE 0,
                !.dropped = pre.silence_frames > 0 /\ (vc \/ ~low),
                !.replaced = w.replaced /\ w.n + 1 < ConfirmCount,
                !.n = Min(w.n + 1, MaxHist + 1),
                !.frames = IF w.n + 1 <= MaxHist
                           THEN Append(w.frames, prob >= r.threshold) ELSE <<>>,
                !.fired = IF vc THEN 0
                          ELSE IF rs.body.speech_ended THEN Min(w.fired + 1, 2)
                          ELSE w.fired,
                !.lows = IF ~low THEN 0
                         ELSE IF w.lows \in 1..(SilenceEndFrames - 1) THEN w.lows + 1
                         ELSE IF pre.has_voice THEN 1 ELSE 0,
                !.quiet = IF ~low \/ vc THEN 0
                          ELSE IF w.quiet \in 1..(SilenceEndFrames - 1) THEN w.quiet + 1
                          ELSE IF pre.has_voice /\ pre.silence_frames = 0 THEN 1 ELSE 0]

(* ---------------- the event loop ---------------- *)

\* asyncio runs a coroutine until it awaits or returns.  speech_to_text awaits
\* asyncio.to_thread(...) around its model; process_vad_stream calls vad_model(...)
\* in the handler itself, so it has no point at which it is suspended.
ClassifierAwaitedInThread == TRUE

ClassifierAwaited == FALSE

\* a process_vad_stream coroutine: its request, whether it is suspended at the
\* classifier, and whether the dict it holds as `session` has since been taken out
\* of vad_sessions (obj is then that dict)
NewCall(r) == [r |-> r, suspended |-> FALSE, detached |-> FALSE, obj |-> FreshSession]

\* the coroutine passes the checks and the decoding that precede the classifier
ReachesClassifier(sessions, model, r) ==
    /\ model # "None"
    /\ r.session_id \in DOMAIN sessions
    /\ DecodeAudio(r.audio_chunk) = "ok"

\* lines after the classifier call, run on the dict the coroutine holds
ResumeCall(sessions, c, outcome) ==
    LET id == c.r.session_id
        session == IF c.detached THEN c.obj ELSE sessions[id]
    IN  IF outcome = ClassifierRaises
        THEN [sessions |-> sessions, resp |-> StreamError("classifier")]
        ELSE LET p == ProcessFrame(session, outcome, c.r.threshold, c.r.threshold_low)
             IN  [sessions |-> IF c.detached THEN sessions
                               ELSE DictSet(sessions, id, p.session),
                  resp |-> p.resp]

\* vad_sessions[id] is rebound or popped: suspended coroutines keep the old dict
Detach(calls, sessions, id) ==
    {IF c.r.session_id = id /\ ~c.detached
     THEN [c EXCEPT !.detached = TRUE, !.obj = sessions[id]] ELSE c : c \in calls}

(* ---------------- the calls ---------------- *)

\* a run over several session ids is cut after MaxCalls calls; a single session
\* is streamed for as long as the caller likes
Metered == Cardinality(clients) > 1
Spend == IF Metered THEN budget > 0 /\ budget' = budget - 1 ELSE UNCHANGED budget

start_vad_session(id) ==
    /\ Spend
    /\ vad_sessions' = StartSession(vad_sessions, id)
    /\ req' = [op |-> "start", session_id |-> id]
    /\ resp' = StartResponse(id)
    /\ watch' = [watch EXCEPT ![id] =
                    [WatchInit EXCEPT !.replaced =
                        id \in DOMAIN vad_sessions /\ vad_sessions[id] # FreshSession]]
    /\ inflight' = IF id \in DOMAIN vad_sessions
                   THEN Detach(inflight, vad_sessions, id) ELSE inflight
    /\ UNCHANGED <<vad_model, clients>>

\* the requests a caller may send for id
ProcessRequests(id) ==
    {[op |-> "process", session_id |-> id, audio_chunk |-> chunk,
      threshold |-> threshold, threshold_low |-> threshold_low] :
        threshold \in Thresholds, threshold_low \in ThresholdLows, chunk \in AudioChunks}

\* the event loop runs one process_vad_stream coroutine for id, a new one or a
\* suspended one, until it awaits or returns
process_vad_stream(id) ==
    /\ Spend
    /\ id \in DOMAIN vad_sessions => vad_sessions[id].silence_frames < MaxSilence
    /\ \E c \in {NewCall(r) : r \in ProcessRequests(id)}
                 \cup {t \in inflight : t.r.session_id = id} :
        \E outcome \in OutcomesOf(DecodeAudio(c.r.audio_chunk)) :
          IF /\ ~c.suspended
             /\ ClassifierAwaited
             /\ ReachesClassifier(vad_sessions, vad_model, c.r)
          THEN /\ Cardinality(inflight) < MaxInflight
               /\ inflight' = inflight \cup {[c EXCEPT !.suspended = TRUE]}
               /\ UNCHANGED <<vad_sessions, req, resp, watch>>
          ELSE LET done == IF c.suspended THEN ResumeCall(vad_sessions, c, outcome)
                           ELSE ProcessCall(vad_sessions, vad_model, c.r, outcome)
                   seen == IF c.detached THEN c.obj ELSE vad_sessions[id]
               IN  /\ vad_sessions' = done.sessions
                   /\ req' = c.r
                   /\ resp' = done.resp
                   /\ watch' = IF c.detached \/ id \in DOMAIN vad_sessions
                               THEN [watch EXCEPT ![id] = Observe(watch[id], seen, c.r, done.resp)]
                               ELSE watch
                   /\ inflight' = inflight \ {c}
    /\ UNCHANGED <<vad_model, clients>>

end_vad_session(id) ==
    /\ Spend
    /\ LET c == EndCall(vad_sessions, id)
       IN  /\ vad_sessions' = c.sessions
           /\ resp' = c.resp
    /\ req' = [op |-> "end", session_id |-> id]
    /\ watch' = [watch EXCEPT ![id] = [WatchInit EXCEPT !.heard = watch[id].heard]]
    /\ inflight' = IF id \in DOMAIN vad_sessions
                   THEN Detach(inflight, vad_sessions, id) ELSE inflight
    /\ UNCHANGED <<vad_model, clients>>

detect_voice_activity ==
    /\ Spend
    /\ \E threshold \in DetectThresholds, chunk \in AudioChunks :
        \E outcome \in OutcomesOf(DecodeAudio(chunk)) :
          LET r == [op |-> "detect", audio_data |-> chunk, threshold |-> threshold]
          IN  /\ req' = r
              /\ resp' = DetectCall(vad_model, r, outcome)
    /\ UNCHANGED <<vad_model, vad_sessions, watch, clients, inflight>>

StartStep == \E id \in clients : start_vad_session(id)
ProcessStep == \E id \in clients : process_vad_stream(id)
EndStep == \E id \in clients : end_vad_session(id)

Next == StartStep \/ ProcessStep \/ EndStep \/ detect_voice_activity

\* after load_models: the classifier loaded or not, no session, nothing served yet
Started ==
    /\ vad_model \in {"loaded", "None"}
    /\ vad_sessions = [i \in {} |-> FreshSession]
    /\ req = [op |-> "none"]
    /\ resp = [status |-> 0, body |-> [status |-> "idle"]]
    /\ inflight = {}

\* one caller streaming one session, for as long as it likes
Init == /\ Started
        /\ clients = {"s1"}
        /\ watch = [i \in clients |-> WatchInit]
        /\ budget = MaxCalls

\* callers of two sessions, MaxCalls calls in all
InitTwo == /\ Started
           /\ clients = SessionIds
           /\ watch = [i \in clients |-> WatchInit]
           /\ budget = MaxCalls

Spec == Init /\ [][Next]_vars
SpecTwo == InitTwo /\ [][Next]_vars

(* ---------------- reading the last response ---------------- *)

\* the last call served was a successful process call on id
ProcessOk(id) == req.op = "process" /\ req.session_id = id /\ resp.status = 200
\* the last call served was a call of kind op on id
Served(op, id) == req.op = op /\ req.session_id = id
\* found / had_voice of a session_end response: "found" is status "ended"; a body
\* without the had_voice key reads as had_voice = false
Found(r) == r.status = 200 /\ r.body.status = "ended"
HadVoice(r) == IF "had_voice" \in DOMAIN r.body THEN r.body.had_voice ELSE FALSE
Live(id) == id \in DOMAIN vad_sessions

\* the last k entries of a sequence, oldest first
LastK(seq, k) == [i \in 1..k |-> seq[Len(seq) - k + i]]
TrueCount(seq) == Cardinality({i \in 1..Len(seq) : seq[i]})

(* ---------------- C1 ---------------- *)

\* C1: speech_ended is edge-triggered: between two responses of a session with
\* speech_ended = true there is a response with voice_confirmed = true, so no
\* session sees a second speech_ended since its last voice-confirmed response.
C1_EdgeTriggered == \A id \in clients : watch[id].fired <= 1

(* ---------------- C2 ---------------- *)

\* C2 as stated: from any session state with has_voice set, 16 consecutive frames
\* with probability <= threshold_low give speech_ended = false on the first 15
\* and true on the 16th.
C2_SixteenthFromHasVoice ==
    \A id \in clients :
        ProcessOk(id) =>
            /\ watch[id].lows \in 1..(SilenceEndFrames - 1) => ~resp.body.speech_ended
            /\ watch[id].lows = SilenceEndFrames => resp.body.speech_ended

\* C2 amended: from a session state with has_voice set and silence_frames = 0,
\* 16 consecutive frames with probability <= threshold_low of which none is
\* voice-confirmed give speech_ended = false on the first 15 and true on the 16th.
C2_SixteenthFromQuiet ==
    \A id \in clients :
        ProcessOk(id) =>
            /\ watch[id].quiet \in 1..(SilenceEndFrames - 1) =>
                  /\ ~resp.body.speech_ended
                  /\ vad_sessions[id].silence_frames = watch[id].quiet
            /\ watch[id].quiet = SilenceEndFrames =>
                  /\ resp.body.speech_ended
                  /\ ~vad_sessions[id].has_voice

C2_Witness ==
    \E id \in clients :
        /\ ProcessOk(id)
        /\ watch[id].quiet = SilenceEndFrames
        /\ resp.body.speech_ended

(* ---------------- C3 ---------------- *)

\* C3: the 1st and the 2nd successful process call since a session's most recent
\* start never return voice_confirmed = true, also when the start replaced a
\* session whose window was full of voiced frames.
C3_NoConfirmBeforeThree ==
    \A id \in clients :
        (ProcessOk(id) /\ watch[id].n \in 1..(ConfirmCount - 1)) => ~resp.body.has_voice

C3_Witness ==
    \E id \in clients :
        /\ ProcessOk(id)
        /\ watch[id].n = 2
        /\ watch[id].replaced
        /\ watch[id].frames = <<TRUE, TRUE>>

(* ---------------- C4 ---------------- *)

\* C4: every live session's voice_window has at most 5 entries.
C4_WindowBounded ==
    \A id \in DOMAIN vad_sessions : Len(vad_sessions[id].voice_window) <= WindowSize

C4_Witness ==
    \E id \in DOMAIN vad_sessions :
        /\ watch[id].n > WindowSize
        /\ Len(vad_sessions[id].voice_window) = WindowSize

(* ---------------- C5 ---------------- *)

\* C5: after the n-th successful process call of a session, voice_window is the
\* decisions probability >= threshold of the last min(n, 5) calls, oldest first,
\* and the voice_confirmed returned by that call says whether at least 3 of them
\* are true (checked for the first MaxHist calls of every session).
C5_WindowIsLastFive ==
    \A id \in DOMAIN vad_sessions :
        watch[id].n <= MaxHist =>
            LET last == LastK(watch[id].frames, Min(watch[id].n, WindowSize))
            IN  /\ Len(watch[id].frames) = watch[id].n
                /\ vad_sessions[id].voice_window = last
                /\ ProcessOk(id) => (resp.body.has_voice <=> TrueCount(last) >= ConfirmCount)

C5_Witness ==
    \E id \in DOMAIN vad_sessions :
        /\ ProcessOk(id)
        /\ watch[id].n = WindowSize + 1
        /\ watch[id].frames[1] # watch[id].frames[2]
        /\ resp.body.has_voice

(* ---------------- C6 ---------------- *)

\* C6: session_start never fails, and right after it the id holds a fresh session
\* (empty window, silence_frames 0, has_voice false), whatever session the id held
\* before: the state every later process call starts from is that of a new id.
C6_StartIsFresh ==
    \A id \in clients :
        Served("start", id) =>
            /\ resp.status = 200
            /\ resp.body.status = "started"
            /\ Live(id)
            /\ vad_sessions[id] = FreshSession
            /\ vad_sessions[id].voice_window = <<>>
            /\ vad_sessions[id].silence_frames = 0
            /\ ~vad_sessions[id].has_voice

C6_Witness ==
    \E id \in clients : Served("start", id) /\ watch[id].replaced

(* ---------------- C7 ---------------- *)

\* C7: session_end on an id that is not in the registry answers without an error,
\* with found = false and had_voice = false, and leaves the registry as it was.
C7_EndAbsentTolerated ==
    [][\A id \in clients :
          (req'.op = "end" /\ req'.session_id = id /\ ~Live(id)) =>
              /\ resp'.status = 200
              /\ ~Found(resp')
              /\ ~HadVoice(resp')
              /\ vad_sessions' = vad_sessions]_vars

C7_Witness ==
    \E id \in clients, other \in DOMAIN vad_sessions :
        /\ Served("end", id)
        /\ resp.body.status = "not_found"
        /\ other # id
        /\ watch[other].n > 0

(* ---------------- C8 ---------------- *)

\* C8: with the classifier loaded, session_process on an id that is not live
\* answers 404 "Session not found" and leaves the registry as it was; an id
\* enters the registry only by a session_start on it.
C8_ProcessAbsentFails ==
    [][\A id \in clients :
          /\ (req'.op = "process" /\ req'.session_id = id
                /\ vad_model = "loaded" /\ ~Live(id)) =>
                 /\ resp'.status = 404
                 /\ resp'.body.detail = <<"Session not found">>
                 /\ vad_sessions' = vad_sessions
          /\ (~Live(id) /\ id \in DOMAIN vad_sessions') => Served("start", id)']_vars

C8_Witness ==
    \E id \in clients, other \in DOMAIN vad_sessions :
        /\ Served("process", id)
        /\ resp.status = 404
        /\ ~Live(id)
        /\ watch[other].n > 0

(* ---------------- C9 ---------------- *)

\* C9: a session_process call that ends in an error leaves every session exactly
\* as it was, and a live session's window always holds one entry per successful
\* call (up to 5): no failed call has added to it.
C9_ProcessAllOrNothing ==
    /\ [][(req'.op = "process" /\ resp'.status # 200) => vad_sessions' = vad_sessions]_vars
    /\ [](\A id \in DOMAIN vad_sessions :
             Len(vad_sessions[id].voice_window) = Min(watch[id].n, WindowSize))

C9_Witness ==
    \E id \in DOMAIN vad_sessions :
        /\ Served("process", id)
        /\ resp.status = 500
        /\ resp.body.detail[2] = "classifier"
        /\ vad_sessions[id].has_voice
        /\ vad_sessions[id].silence_frames > 0

(* ---------------- C10 ---------------- *)

\* C10: a start, process or end call on one id leaves every other id as it was:
\* live or not, and if live with the same window, silence_frames and has_voice.
C10_OtherSessionsUntouched ==
    [][\A a \in clients :
          (req'.op \in {"start", "process", "end"} /\ req'.session_id = a) =>
              \A b \in clients \ {a} :
                  /\ (b \in DOMAIN vad_sessions') <=> Live(b)
                  /\ Live(b) => vad_sessions'[b] = vad_sessions[b]]_vars

C10_Witness ==
    /\ ProcessOk("s1")
    /\ Live("s1") /\ Live("s2")
    /\ vad_sessions["s1"].voice_window # <<>>
    /\ vad_sessions["s2"].voice_window # <<>>
    /\ vad_sessions["s1"].voice_window # vad_sessions["s2"].voice_window

(* ---------------- C11 ---------------- *)

\* C11: process calls on one id never interleave their updates, and a start or end
\* on the id falls entirely before or after each of them: every process call that
\* returns has the response and the effect of the whole handler run on the registry
\* as it is when the call returns, so the calls act one after the other in the order
\* they return; and nothing is lost: a live session's silence_frames, window length
\* and has_voice are those its responses account for.
C11_CallsSerialized ==
    /\ [][\A id \in clients :
             (req'.op = "process" /\ req'.session_id = id /\ inflight' \subseteq inflight) =>
                 \E outcome \in Outcomes :
                     LET whole == ProcessCall(vad_sessions, vad_model, req', outcome)
                     IN  resp' = whole.resp /\ vad_sessions' = whole.sessions]_vars
    /\ [](\A id \in DOMAIN vad_sessions :
             /\ vad_sessions[id].silence_frames = watch[id].run
             /\ Len(vad_sessions[id].voice_window) = Min(watch[id].n, WindowSize)
             /\ vad_sessions[id].has_voice = watch[id].voiced)

C11_Witness ==
    \E id \in DOMAIN vad_sessions :
        /\ ProcessOk(id)
        /\ watch[id].n >= 2
        /\ watch[id].run >= 2
        /\ vad_sessions[id].silence_frames >= 2

(* ---------------- C12 ---------------- *)

\* C12: session_end on a live id answers found with had_voice equal to the
\* session's has_voice, which is what its process responses left it at (true after
\* a voice-confirmed response, false after a speech_ended one, false if neither
\* occurred), and the id is absent from the registry afterwards.
C12_EndReturnsHasVoice ==
    [][\A id \in clients :
          (req'.op = "end" /\ req'.session_id = id /\ Live(id)) =>
              /\ Found(resp')
              /\ "had_voice" \in DOMAIN resp'.body
              /\ resp'.body.had_voice = vad_sessions[id].has_voice
              /\ resp'.body.had_voice = watch[id].voiced
              /\ id \notin DOMAIN vad_sessions']_vars

C12_Witness ==
    \E id \in clients :
        /\ Served("end", id)
        /\ Found(resp)
        /\ ~resp.body.had_voice
        /\ watch[id].heard
        /\ ~Live(id)

(* ---------------- C13 ---------------- *)

\* C13: while the classifier is not loaded, every detect and every process call
\* answers 503 "VAD model not loaded", for a live id and for an absent one alike,
\* and changes no session; start and end work as they do with the classifier loaded.
C13_ModelUnavailable ==
    [][vad_model = "None" =>
          /\ req'.op \in {"process", "detect"} =>
                /\ resp'.status = 503
                /\ resp'.body.detail = <<"VAD model not loaded">>
                /\ vad_sessions' = vad_sessions
          /\ \A id \in clients :
                /\ (req'.op = "start" /\ req'.session_id = id) =>
                      /\ resp'.status = 200
                      /\ id \in DOMAIN vad_sessions'
                      /\ vad_sessions'[id] = FreshSession
                /\ (req'.op = "end" /\ req'.session_id = id) =>
                      /\ resp'.status = 200
                      /\ Found(resp') <=> Live(id)
                      /\ id \notin DOMAIN vad_sessions']_vars

C13_Witness ==
    \E id \in clients, other \in DOMAIN vad_sessions :
        /\ vad_model = "None"
        /\ Served("process", id)
        /\ resp.status = 503
        /\ ~Live(id)
        /\ other # id

(* ---------------- C14 ---------------- *)

\* what tells one error response from another for a caller: the HTTP status and the
\* fixed part of the detail (the rest is the text of whatever exception was caught)
ErrorKind(r) == <<r.status, r.body.detail[1]>>
Audio(r) == IF r.op = "detect" THEN r.audio_data ELSE r.audio_chunk

\* C14: a detect or process call whose frame has an odd number of bytes (served with
\* the classifier loaded and, for process, on a live session) fails with an error
\* kind of its own, different from the kind of a failed classifier inference.
C14_InvalidAudioKind ==
    (/\ req.op \in {"process", "detect"}
     /\ vad_model = "loaded"
     /\ resp.status # 404
     /\ DecodeAudio(Audio(req)) = "ValueError") =>
        /\ resp.status # 200
        /\ ErrorKind(resp) \notin {ErrorKind(StreamError("classifier")),
                                   ErrorKind(DetectError("classifier"))}

(* ---------------- C15 ---------------- *)

\* C15: a detect call changes no session (so no later process or end result depends
\* on it), and when it succeeds its has_voice is probability >= threshold of that
\* frame alone, whatever any session's window holds.
C15_DetectStateless ==
    [][req'.op = "detect" =>
          /\ vad_sessions' = vad_sessions
          /\ watch' = watch
          /\ resp'.status = 200 =>
                (resp'.body.has_voice <=> resp'.body.probability >= req'.threshold)]_vars

C15_Witness ==
    \E id \in DOMAIN vad_sessions :
        /\ req.op = "detect"
        /\ resp.status = 200
        /\ resp.body.has_voice
        /\ resp.body.probability = req.threshold
        /\ Len(vad_sessions[id].voice_window) = WindowSize
        /\ SumWindow(vad_sessions[id].voice_window) = 0

(* ---------------- C16 ---------------- *)

\* the frame of the last request lies strictly between threshold_low and threshold
Ambiguous(r, rs) ==
    r.threshold_low < rs.body.probability /\ rs.body.probability < r.threshold

\* C16: after a successful process call that was voice-confirmed, or whose
\* probability lies strictly between threshold_low and threshold, silence_frames is
\* 0; silence_frames grows only by 1, and only on a call that is not voice-confirmed
\* and has probability <= threshold_low.
C16_SilenceRun ==
    [][\A id \in clients :
          (req'.op = "process" /\ req'.session_id = id /\ resp'.status = 200) =>
              /\ (resp'.body.has_voice \/ Ambiguous(req', resp')) =>
                    vad_sessions'[id].silence_frames = 0
              /\ vad_sessions'[id].silence_frames > vad_sessions[id].silence_frames =>
                    /\ vad_sessions'[id].silence_frames = vad_sessions[id].silence_frames + 1
                    /\ ~resp'.body.has_voice
                    /\ resp'.body.probability <= req'.threshold_low]_vars

C16_Witness ==
    \E id \in DOMAIN vad_sessions :
        /\ ProcessOk(id)
        /\ Ambiguous(req, resp)
        /\ ~resp.body.has_voice
        /\ watch[id].dropped
        /\ vad_sessions[id].silence_frames = 0

(* ---------------- C17 ---------------- *)

\* C17: a successful process call whose probability lies strictly between
\* threshold_low and threshold leaves the session's has_voice as it was and returns
\* speech_ended = false, also when the window still holds 3 or more true entries.
C17_AmbiguousKeepsHasVoice ==
    [][\A id \in clients :
          (/\ req'.op = "process" /\ req'.session_id = id /\ resp'.status = 200
           /\ Ambiguous(req', resp')) =>
              /\ vad_sessions'[id].has_voice = vad_sessions[id].has_voice
              /\ ~resp'.body.speech_ended]_vars

C17_Witness ==
    \E id \in DOMAIN vad_sessions :
        /\ ProcessOk(id)
        /\ Ambiguous(req, resp)
        /\ SumWindow(vad_sessions[id].voice_window) >= ConfirmCount
        /\ resp.body.has_voice
        /\ vad_sessions[id].has_voice

(* ---------------- C18 ---------------- *)

\* C18: a live session whose silence_frames is 16 or more has has_voice = false.
C18_LongSilenceNoVoice ==
    \A id \in DOMAIN vad_sessions :
        vad_sessions[id].silence_frames >= SilenceEndFrames => ~vad_sessions[id].has_voice

C18_Witness ==
    \E id \in DOMAIN vad_sessions :
        /\ vad_sessions[id].silence_frames > SilenceEndFrames
        /\ watch[id].heard
        /\ ~vad_sessions[id].has_voice

(* ---------------- C19 ---------------- *)

\* C19: a process response has speech_ended = true only if an earlier response of
\* the same session, since its last start, had voice_confirmed = true.
C19_EndOnlyAfterVoice ==
    \A id \in clients :
        (ProcessOk(id) /\ resp.body.speech_ended) => watch[id].heard

(* ---------------- C20 ---------------- *)

\* C20: no process response has both has_voice (voice_confirmed) and speech_ended;
\* after a response with speech_ended the session's has_voice is false, after one
\* with voice_confirmed it is true; also for requests with threshold_low >= threshold.
C20_ConfirmedExcludesEnded ==
    \A id \in clients :
        ProcessOk(id) =>
            /\ ~(resp.body.has_voice /\ resp.body.speech_ended)
            /\ resp.body.speech_ended => ~vad_sessions[id].has_voice
            /\ resp.body.has_voice =>
                  vad_sessions[id].has_voice /\ vad_sessions[id].silence_frames = 0

C20_Witness ==
    \E id \in clients :
        /\ ProcessOk(id)
        /\ req.threshold_low >= req.threshold
        /\ resp.body.probability <= req.threshold_low
        /\ resp.body.has_voice
        /\ watch[id].n > SilenceEndFrames - 10
        /\ vad_sessions[id].has_voice

====
